---- MODULE Spec2Model ----
(***************************************************************************)
(* A model of pmc_pdf_download.py: the search for PMC identifiers, the     *)
(* lookup of each identifier in the file list, the download of its         *)
(* archive, and the extraction, relocation of the PDFs and clean-up.       *)
(*                                                                         *)
(* Paths, URLs and file names are strings, handled as the code handles     *)
(* them (f-strings, os.path.join, str.split, str.endswith).  The file      *)
(* system is a function from the paths that exist to what is stored there. *)
(* The network is the environment: each GET draws its response.            *)
(***************************************************************************)
EXTENDS Integers, Sequences, FiniteSets, TLC

VARIABLES
    fs,         \* the file system: existing path |-> Dir or File(body)
    file_csv,   \* the file list: a sequence of rows [acc, file]
    pc,         \* the position of the script
    pmc_ids,    \* the identifiers get_pmc_ids returned
    i,          \* the index of the current identifier in pmc_ids
    link,       \* what get_url returned for the current identifier
    resp,       \* history: the response to the GET of the current call
    gets,       \* history: the URLs of the GETs issued, in order
    log,        \* history: the calls made and how each ended, in order
    fsFetch,    \* history: fs when download_pmc_pdf was entered
    fsUnzip,    \* history: fs when unzip_and_clean was entered
    fsExtr,     \* history: fs right after tar.extractall
    relocated   \* history: the paths of the PDFs moved so far

vars == <<fs, file_csv, pc, pmc_ids, i, link, resp, gets, log,
          fsFetch, fsUnzip, fsExtr, relocated>>

----------------------------------------------------------------------------
(* Bounds of the model *)

MaxIds == 2         \* elements in a search response
MaxRows == 2        \* rows of the file list
MaxMembers == 2     \* members of an archive

----------------------------------------------------------------------------
(* Strings *)

None == "<None>"

\* s.endswith(suffix)
EndsWith(s, suffix) ==
    /\ Len(s) >= Len(suffix)
    /\ SubSeq(s, Len(s) - Len(suffix) + 1, Len(s)) = suffix

\* s.startswith(prefix)
StartsWith(s, prefix) ==
    /\ Len(s) >= Len(prefix)
    /\ SubSeq(s, 1, Len(prefix)) = prefix

\* the positions of "/" in s
Slashes(s) == {k \in 1..Len(s) : SubSeq(s, k, k) = "/"}

Max(S) == CHOOSE x \in S : \A y \in S : y <= x

\* s.split("/")[-1]
LastSegment(s) ==
    IF Slashes(s) = {} THEN s ELSE SubSeq(s, Max(Slashes(s)) + 1, Len(s))

\* os.path.join(a, b), b relative
Join(a, b) == a \o "/" \o b

\* os.path.dirname(p)
Dirname(p) ==
    IF Slashes(p) = {} THEN "" ELSE SubSeq(p, 1, Max(Slashes(p)) - 1)

\* the directories above p
Ancestors(p) == {SubSeq(p, 1, k - 1) : k \in Slashes(p)}

----------------------------------------------------------------------------
(* The file system *)

Dir == [kind |-> "dir"]
File(body) == [kind |-> "file", body |-> body]

Exists(f, p) == p \in DOMAIN f
IsFile(f, p) == p \in DOMAIN f /\ f[p].kind = "file"
IsDir(f, p) == p \in DOMAIN f /\ f[p].kind = "dir"

\* p and everything below it
Under(f, p) == {q \in DOMAIN f : q = p \/ StartsWith(q, p \o "/")}

\* os.makedirs(d, exist_ok=True)
Makedirs(f, d) ==
    [q \in DOMAIN f \cup Ancestors(d) \cup {d} |->
        IF q \in DOMAIN f THEN f[q] ELSE Dir]

\* open(p, 'wb').write(body): creates or truncates the file at p
WriteFile(f, p, body) ==
    [q \in DOMAIN f \cup {p} |-> IF q = p THEN File(body) ELSE f[q]]

\* os.listdir(d): the names of the entries directly below d
Listdir(f, d) ==
    LET name(q) == SubSeq(q, Len(d) + 2, Len(q))
    IN  {name(q) : q \in {r \in DOMAIN f :
                            StartsWith(r, d \o "/") /\ Slashes(name(r)) = {}}}

\* shutil.rmtree(d)
Rmtree(f, d) == [q \in DOMAIN f \ Under(f, d) |-> f[q]]

\* os.remove(p)
Remove(f, p) == [q \in DOMAIN f \ {p} |-> f[q]]

\* shutil.move(src, dst_dir): src lands at dst_dir/basename(src)
Move(f, src, dst_dir) ==
    LET dst == Join(dst_dir, LastSegment(src))
        to(q) == dst \o SubSeq(q, Len(src) + 1, Len(q))
        moved == Under(f, src)
    IN  [q \in (DOMAIN f \ moved) \cup {to(r) : r \in moved} |->
            IF \E r \in moved : to(r) = q
            THEN f[CHOOSE r \in moved : to(r) = q]
            ELSE f[q]]

----------------------------------------------------------------------------
(* What files hold and what the servers answer *)

\* an XML-like document: its elements in document order
Xml(doc) == [fmt |-> "xml", doc |-> doc]
\* a gzipped tar archive: the paths of its (regular file) members
Tar(members) == [fmt |-> "tar", members |-> members]
\* bytes that are neither: a truncated or corrupt payload
Junk == [fmt |-> "junk"]
\* the bytes of the archive member stored as m
MemberData(m) == [fmt |-> "data", of |-> m]
\* the bytes of a file that was on disk before the run
Old == [fmt |-> "data", of |-> "old"]
\* the body that comes with an error status
ErrorPage == Xml(<<[tag |-> "ERROR", text |-> "error"]>>)

SeqsUpTo(S, n) == UNION {[1..k -> S] : k \in 0..n}

Ids == {"123", "456"}

Elements ==
    {[tag |-> "Id", text |-> id] : id \in Ids} \cup {[tag |-> "Count", text |-> "2"]}

Docs == SeqsUpTo(Elements, MaxIds)

MemberNames ==
    {"readme.txt", "a.pdf",
     "PMC123/a.pdf", "PMC123/b.pdf", "PMC123/x.nxml", "PMC456/a.pdf"}

Archives == {Tar(ms) : ms \in {m \in SUBSET MemberNames : Cardinality(m) <= MaxMembers}}

Row(acc, file) == [acc |-> acc, file |-> file]
Row123 == Row("PMC123", "oa_package/aa/bb/PMC123.tar.gz")
Row123x == Row("PMC123", "oa_package/ee/ff/article.tar.gz")
Row456 == Row("PMC456", "oa_package/cc/dd/PMC456.tar.gz")

Rows == {Row123, Row123x, Row456}

\* the file lists of the lookup on its own
Tables == SeqsUpTo(Rows, MaxRows)

\* the file lists of the whole script
FileLists ==
    {<<>>, <<Row123>>, <<Row456>>, <<Row123x>>,
     <<Row123, Row456>>, <<Row123, Row123x>>, <<Row123x, Row123>>}

\* requests.get raised instead of returning (no connection)
ConnectionError == [status |-> 0, body |-> Junk]

SearchResponses ==
    {[status |-> 200, body |-> Xml(d)] : d \in Docs}
        \cup {[status |-> 200, body |-> Junk],
              [status |-> 404, body |-> ErrorPage],
              ConnectionError}

ArchiveResponses ==
    {[status |-> 200, body |-> a] : a \in Archives}
        \cup {[status |-> 200, body |-> Junk],
              [status |-> 404, body |-> ErrorPage],
              ConnectionError}

----------------------------------------------------------------------------
(* The configuration of the __main__ section *)

search_term == "gene"
save_dir == "genes_dataset"
RetMax == 20
file_name == "esearch_pmd_" \o search_term \o "_id.xml"
pdf_save_dir == Join(save_dir, "pdfs")

base_url == "https://ftp.ncbi.nlm.nih.gov/pub/pmc/"

esearch_url ==
    "https://eutils.ncbi.nlm.nih.gov/entrez/eutils/esearch.fcgi?db=pmc&term="
        \o search_term \o "&RetMax=" \o ToString(RetMax)

----------------------------------------------------------------------------
(* The functions of the script *)

\* get_url, had it taken the last matching row (response.values[-1])
get_url_last(csv, pmc_id) ==
    LET response == SelectSeq(csv, LAMBDA row : row.acc = "PMC" \o pmc_id)
    IN  IF response = <<>> THEN None ELSE response[Len(response)].file

\* get_url, had it fallen back on the usual place of an archive instead of
\* returning None
get_url_default(csv, pmc_id) ==
    LET response == SelectSeq(csv, LAMBDA row : row.acc = "PMC" \o pmc_id)
    IN  IF response = <<>>
        THEN "oa_package/PMC" \o pmc_id \o ".tar.gz"
        ELSE response[1].file

\* get_url: the File of the first row whose Accession ID is PMC<pmc_id>
get_url(csv, pmc_id) ==
    LET response == SelectSeq(csv, LAMBDA row : row.acc = "PMC" \o pmc_id)
    IN  IF response = <<>> THEN None ELSE response[1].file

\* the path download_file writes to
file_path(url, dir, name) ==
    Join(dir, IF name = None THEN LastSegment(url) ELSE name)

\* download_file, had it left an existing file alone
download_file_noclobber(f, url, dir, name, response) ==
    IF response.status = 200 /\ ~Exists(f, file_path(url, dir, name))
    THEN WriteFile(Makedirs(f, dir), file_path(url, dir, name), response.body)
    ELSE f

\* download_file, had it saved the body whatever the status
download_file_unconditional(f, url, dir, name, response) ==
    WriteFile(Makedirs(f, dir), file_path(url, dir, name), response.body)

\* download_file: the file system after the call, given the response
download_file(f, url, dir, name, response) ==
    IF response.status = 200
    THEN WriteFile(Makedirs(f, dir), file_path(url, dir, name), response.body)
    ELSE f

\* soup.find_all('Id'), then the text of each
ParseIds(body) ==
    IF body.fmt = "xml"
    THEN LET ids == SelectSeq(body.doc, LAMBDA e : e.tag = "Id")
         IN  [k \in 1..Len(ids) |-> ids[k].text]
    ELSE <<>>

tar_gz_path(pmc_id, dir) == Join(dir, "PMC" \o pmc_id \o ".tar.gz")
extracted_dir(pmc_id, dir) == Join(dir, "PMC" \o pmc_id)

\* tarfile.open(path, "r:gz") succeeds
CanOpenTar(f, path) == IsFile(f, path) /\ f[path].body.fmt = "tar"

\* tar.extractall(path=dir): every member is written below dir, with the
\* directories on its way, over whatever file was there
ExtractAll(f, tar, dir) ==
    LET at(m) == Join(dir, m)
        files == {at(m) : m \in tar.members}
        dirs == (UNION {Ancestors(p) : p \in files}) \ files
    IN  [q \in DOMAIN f \cup files \cup dirs |->
            IF q \in files
            THEN File(MemberData(CHOOSE m \in tar.members : at(m) = q))
            ELSE IF q \in DOMAIN f THEN f[q] ELSE Dir]

\* pdf_files, had it taken every entry of the extracted directory
pdf_files_all(f, pmc_id, dir) == Listdir(f, extracted_dir(pmc_id, dir))

\* [f for f in os.listdir(extracted_dir) if f.endswith('.pdf')]
pdf_files(f, pmc_id, dir) ==
    {n \in Listdir(f, extracted_dir(pmc_id, dir)) : EndsWith(n, ".pdf")}

\* the body of the loop, had it moved the file without looking
MoveOneOverwrite(f, pdf_file, pmc_id, dir) ==
    Move(f, Join(extracted_dir(pmc_id, dir), pdf_file), dir)

\* the body of the loop over pdf_files for one pdf_file
MoveOne(f, pdf_file, pmc_id, dir) ==
    LET target_path == Join(dir, pdf_file)
    IN  IF ~Exists(f, target_path)
        THEN Move(f, Join(extracted_dir(pmc_id, dir), pdf_file), dir)
        ELSE f

\* the loop over pdf_files
RECURSIVE MoveAll(_, _, _, _)
MoveAll(f, names, pmc_id, dir) ==
    IF names = {} THEN f
    ELSE LET n == CHOOSE x \in names : TRUE
         IN  MoveAll(MoveOne(f, n, pmc_id, dir), names \ {n}, pmc_id, dir)

\* the clean-up, had it forgotten the archive
CleanUpKeepArchive(f, pmc_id, dir) == Rmtree(f, extracted_dir(pmc_id, dir))

\* shutil.rmtree(extracted_dir); os.remove(tar_gz_path)
CleanUp(f, pmc_id, dir) ==
    Remove(Rmtree(f, extracted_dir(pmc_id, dir)), tar_gz_path(pmc_id, dir))

----------------------------------------------------------------------------
(* The state before the script starts *)

\* what earlier runs may have left on disk: a search result, a PDF, an
\* archive that was never cleaned up, an extracted directory
StaleFiles ==
    {[path |-> Join(save_dir, file_name),
      body |-> Xml(<<[tag |-> "Id", text |-> "456"]>>)],
     [path |-> Join(pdf_save_dir, "a.pdf"), body |-> Old],
     [path |-> Join(pdf_save_dir, "PMC123.tar.gz"), body |-> Tar({"PMC123/b.pdf"})],
     [path |-> Join(pdf_save_dir, "PMC123/b.pdf"), body |-> Old]}

\* the (empty) file system
NoFs == [q \in {} |-> Dir]

RECURSIVE DiskWith(_)
DiskWith(stale) ==
    IF stale = {} THEN NoFs
    ELSE LET s == CHOOSE x \in stale : TRUE
         IN  WriteFile(Makedirs(DiskWith(stale \ {s}), Dirname(s.path)), s.path, s.body)

Disks == {NoFs} \cup {DiskWith({s}) : s \in StaleFiles}

NoResponse == [status |-> 0, body |-> Junk]

Init ==
    /\ fs \in Disks
    /\ file_csv \in FileLists
    /\ pc = "get_pmc_ids"
    /\ pmc_ids = <<>>
    /\ i = 0
    /\ link = None
    /\ resp = NoResponse
    /\ gets = <<>>
    /\ log = <<>>
    /\ fsFetch = fs
    /\ fsUnzip = fs
    /\ fsExtr = fs
    /\ relocated = {}

----------------------------------------------------------------------------
(* The steps of the script *)

Entry(op, id, out) == [op |-> op, id |-> id, out |-> out]

\* for pmc_id in pmc_ids: go to the k-th identifier of ids, or finish
GoTo(ids, k) ==
    /\ i' = k
    /\ pc' = IF k > Len(ids) THEN "done" ELSE "get_url"

\* an exception, had the loop caught it and gone on with the next identifier
RaiseCaught(op, id) ==
    /\ log' = Append(log, Entry(op, id, "raise"))
    /\ IF pc = "get_pmc_ids"
       THEN pc' = "raised" /\ i' = i
       ELSE GoTo(pmc_ids, i + 1)

\* an exception nobody catches: the script ends
Raise(op, id) ==
    /\ pc' = "raised"
    /\ log' = Append(log, Entry(op, id, "raise"))
    /\ i' = i

\* get_pmc_ids: GET the search, save it with download_file, read the file
\* back and parse it
GetPmcIds ==
    /\ pc = "get_pmc_ids"
    /\ \E response \in SearchResponses :
        LET path == Join(save_dir, file_name)
            after == download_file(fs, esearch_url, save_dir, file_name, response)
        IN  /\ resp' = response
            /\ gets' = Append(gets, esearch_url)
            /\ IF response = ConnectionError
               THEN /\ Raise("get_pmc_ids", "")
                    /\ UNCHANGED <<fs, pmc_ids>>
               ELSE /\ fs' = after
                    /\ IF IsFile(after, path)
                       THEN /\ pmc_ids' = ParseIds(after[path].body)
                            /\ log' = Append(log, Entry("get_pmc_ids", "",
                                   IF response.status = 200 THEN "saved" ELSE "failed"))
                            /\ GoTo(pmc_ids', 1)
                       ELSE \* open(..., 'r') raises FileNotFoundError
                            /\ Raise("get_pmc_ids", "")
                            /\ UNCHANGED pmc_ids
    /\ UNCHANGED <<file_csv, link, fsFetch, fsUnzip, fsExtr, relocated>>

\* download_pmc_pdf, lines 103-106: look the identifier up; skip it when
\* the file list has no row for it
GetUrl ==
    /\ pc = "get_url"
    /\ LET pmc_id == pmc_ids[i]
           found == get_url(file_csv, pmc_id)
       IN  /\ link' = found
           /\ fsFetch' = fs
           /\ fsUnzip' = fs
           /\ fsExtr' = fs
           /\ resp' = NoResponse
           /\ IF found = None
              THEN \* print(f"No PDF found for {pmc_id}"); return
                   /\ log' = Append(log, Entry("get_url", pmc_id, "none"))
                   /\ GoTo(pmc_ids, i + 1)
              ELSE /\ log' = Append(log, Entry("get_url", pmc_id, "found"))
                   /\ pc' = "download_file"
                   /\ i' = i
    /\ UNCHANGED <<fs, file_csv, pmc_ids, gets, relocated>>

\* download_pmc_pdf, lines 109-110: GET the archive and save it
DownloadFile ==
    /\ pc = "download_file"
    /\ \E response \in ArchiveResponses :
        LET pmc_id == pmc_ids[i]
            url == base_url \o link
            after == download_file(fs, url, pdf_save_dir, None, response)
        IN  /\ resp' = response
            /\ gets' = Append(gets, url)
            /\ IF response = ConnectionError
               THEN /\ Raise("download_file", pmc_id)
                    /\ UNCHANGED <<fs, fsUnzip>>
               ELSE /\ fs' = after
                    /\ fsUnzip' = after
                    /\ log' = Append(log, Entry("download_file", pmc_id,
                           IF response.status = 200 THEN "saved" ELSE "failed"))
                    /\ pc' = "extract"
                    /\ i' = i
    /\ UNCHANGED <<file_csv, pmc_ids, link, fsFetch, fsExtr, relocated>>

\* unzip_and_clean, lines 126-131: open the archive and extract it
Extract ==
    /\ pc = "extract"
    /\ LET pmc_id == pmc_ids[i]
           path == tar_gz_path(pmc_id, pdf_save_dir)
       IN  IF CanOpenTar(fs, path)
           THEN /\ fs' = ExtractAll(fs, fs[path].body, pdf_save_dir)
                /\ fsExtr' = fs'
                /\ pc' = "relocate"
                /\ UNCHANGED <<i, log>>
           ELSE \* tarfile.open raises FileNotFoundError or ReadError
                /\ Raise("unzip_and_clean", pmc_id)
                /\ UNCHANGED <<fs, fsExtr>>
    /\ UNCHANGED <<file_csv, pmc_ids, link, resp, gets, fsFetch, fsUnzip, relocated>>

\* unzip_and_clean, lines 134-147: list the PDFs of the extracted directory
\* and move each one that has no namesake in save_dir
Relocate ==
    /\ pc = "relocate"
    /\ LET pmc_id == pmc_ids[i]
           dir == extracted_dir(pmc_id, pdf_save_dir)
           pdfs == pdf_files(fs, pmc_id, pdf_save_dir)
           conflicts == {n \in pdfs : Exists(fs, Join(pdf_save_dir, n))}
       IN  IF IsDir(fs, dir)
           THEN /\ fs' = MoveAll(fs, pdfs, pmc_id, pdf_save_dir)
                /\ relocated' = relocated \cup
                       {Join(pdf_save_dir, n) : n \in pdfs \ conflicts}
                /\ log' = IF pdfs = {}
                          THEN Append(log, Entry("print", pmc_id, "No PDF found in the archive."))
                          ELSE log
                /\ pc' = "clean"
                /\ i' = i
           ELSE \* os.listdir raises FileNotFoundError
                /\ Raise("unzip_and_clean", pmc_id)
                /\ UNCHANGED <<fs, relocated>>
    /\ UNCHANGED <<file_csv, pmc_ids, link, resp, gets, fsFetch, fsUnzip, fsExtr>>

\* unzip_and_clean, lines 150-151: delete the extracted directory and the
\* archive, and return to the loop
Clean ==
    /\ pc = "clean"
    /\ LET pmc_id == pmc_ids[i]
       IN  /\ fs' = CleanUp(fs, pmc_id, pdf_save_dir)
           /\ log' = Append(log, Entry("unzip_and_clean", pmc_id, "returned"))
           /\ GoTo(pmc_ids, i + 1)
    /\ UNCHANGED <<file_csv, pmc_ids, link, resp, gets, fsFetch, fsUnzip, fsExtr, relocated>>

Next ==
    \/ GetPmcIds
    \/ GetUrl
    \/ DownloadFile
    \/ Extract
    \/ Relocate
    \/ Clean

Spec == Init /\ [][Next]_vars

----------------------------------------------------------------------------
(* The lookup on its own: the script right after a search that returned    *)
(* identifiers, with any file list of up to MaxRows rows                   *)

InitLookup ==
    /\ \E d \in Docs :
        /\ resp = [status |-> 200, body |-> Xml(d)]
        /\ pmc_ids = ParseIds(resp.body)
        /\ pmc_ids # <<>>
    /\ fs = download_file(NoFs, esearch_url, save_dir, file_name, resp)
    /\ file_csv \in Tables
    /\ pc = "get_url"
    /\ i = 1
    /\ link = None
    /\ gets = <<esearch_url>>
    /\ log = <<Entry("get_pmc_ids", "", "saved")>>
    /\ fsFetch = NoFs
    /\ fsUnzip = NoFs
    /\ fsExtr = NoFs
    /\ relocated = {}

SpecLookup == InitLookup /\ [][GetUrl]_vars

----------------------------------------------------------------------------
(* The shape of the state *)

TypeOK ==
    /\ pc \in {"get_pmc_ids", "get_url", "download_file", "extract",
               "relocate", "clean", "done", "raised"}
    /\ i \in 0..(Len(pmc_ids) + 1)
    /\ \A p \in DOMAIN fs : \A d \in Ancestors(p) : IsDir(fs, d)

----------------------------------------------------------------------------
(* Vocabulary of the properties *)

Last(seq) == seq[Len(seq)]

\* the rows of the file list whose Accession ID is PMC<id>
RowsOf(id) == {k \in 1..Len(file_csv) : file_csv[k].acc = "PMC" \o id}

Min(S) == CHOOSE x \in S : \A y \in S : x <= y

\* the last call that ended is op, and it ended as out
Ended(op, out) == log # <<>> /\ Last(log).op = op /\ Last(log).out = out

\* the log entries of the calls of op
Calls(op) == SelectSeq(log, LAMBDA e : e.op = op)

----------------------------------------------------------------------------
(* C8: get_url returns the File of the first row whose Accession ID is     *)
(* "PMC" + id when there is such a row (also when there are several), and  *)
(* None when there is none; the file list is left as it was.               *)
C8_GetUrlFirstRow ==
    [][pc = "get_url" =>
        /\ RowsOf(pmc_ids[i]) # {} => link' = file_csv[Min(RowsOf(pmc_ids[i]))].file
        /\ RowsOf(pmc_ids[i]) = {} => link' = None
        /\ file_csv' = file_csv]_vars

\* a lookup that found two rows with different File values and returned
\* the first
C8_Witness ==
    /\ Ended("get_url", "found")
    /\ \E k \in RowsOf(Last(log).id) :
        /\ k > Min(RowsOf(Last(log).id))
        /\ file_csv[k].file # link
    /\ link = file_csv[Min(RowsOf(Last(log).id))].file

----------------------------------------------------------------------------
(* C6: the identifiers are handled one at a time in list order; for an     *)
(* identifier with no row PMC<id> the script only logs and skips: no GET,  *)
(* no unzip_and_clean, the file system unchanged, and it goes on with the  *)
(* next identifier.                                                        *)
C6_SkipAndContinue ==
    /\ [](\* the identifiers looked up so far are the first i' of the list, in order
          /\ LET looked == Calls("get_url")
             IN  /\ Len(looked) <= Len(pmc_ids)
                 /\ \A k \in 1..Len(looked) : looked[k].id = pmc_ids[k]
          \* a download or an unpack is of the identifier looked up last
          /\ \A k \in 1..Len(log) :
                log[k].op \in {"download_file", "unzip_and_clean"} =>
                    /\ k > 1
                    /\ log[k].id = log[k - 1].id
                    /\ log[k - 1].op \in {"get_url", "download_file", "print"}
                    /\ log[k - 1].out # "none")
    /\ [][(pc = "get_url" /\ RowsOf(pmc_ids[i]) = {}) =>
            /\ fs' = fs
            /\ gets' = gets
            /\ log' = Append(log, Entry("get_url", pmc_ids[i], "none"))
            /\ i' = i + 1
            /\ pc' = IF i < Len(pmc_ids) THEN "get_url" ELSE "done"]_vars

\* the scenario: ids [123, 456] with only PMC123 in the file list: one
\* download and unpack for 123, then one skip for 456
C6_Witness ==
    /\ pmc_ids = <<"123", "456">>
    /\ file_csv = <<Row123>>
    /\ pc = "done"
    /\ [k \in 1..Len(log) |-> <<log[k].op, log[k].id, log[k].out>>] =
        << <<"get_pmc_ids", "", "saved">>,
           <<"get_url", "123", "found">>,
           <<"download_file", "123", "saved">>,
           <<"unzip_and_clean", "123", "returned">>,
           <<"get_url", "456", "none">> >>
    /\ gets = <<esearch_url, base_url \o Row123.file>>

----------------------------------------------------------------------------
(* C10: once unzip_and_clean raises, the script has ended: no later        *)
(* identifier is looked up, fetched or unpacked; the PDFs moved for the    *)
(* earlier identifiers are still in the save directory.                    *)
C10_UnpackFailureEndsBatch ==
    /\ [](Ended("unzip_and_clean", "raise") =>
            /\ pc = "raised"
            /\ Len(Calls("get_url")) = i
            /\ \A p \in relocated : IsFile(fs, p))
    /\ [][Ended("unzip_and_clean", "raise") => UNCHANGED vars]_vars

\* unzip_and_clean raised for the first of two identifiers
C10_Witness ==
    /\ Ended("unzip_and_clean", "raise")
    /\ i = 1
    /\ Len(pmc_ids) = 2
    /\ RowsOf(pmc_ids[2]) # {}

----------------------------------------------------------------------------
(* C2: a non-200 answer to the GET of an archive is not fatal: the script  *)
(* does not end with an exception because of it.                           *)
C2_NetworkFailureNonFatal ==
    (/\ Calls("download_file") # <<>>
     /\ Last(Calls("download_file")).out = "failed"
     /\ resp.status = 404) => pc # "raised"

----------------------------------------------------------------------------
(* C3: when the GET of the archive of an identifier answers 200, the file  *)
(* unzip_and_clean is about to open, <save_dir>/PMC<id>.tar.gz, is the     *)
(* file download_file has just written, whatever path the file list gives. *)
C3_ArchiveAtDeterministicPath ==
    (pc = "extract" /\ resp.status = 200) =>
        LET path == Join(pdf_save_dir, "PMC" \o pmc_ids[i] \o ".tar.gz")
        IN  IsFile(fs, path) /\ fs[path].body = resp.body

----------------------------------------------------------------------------
(* C5: download_file writes if and only if the status is 200: on 200 the   *)
(* directory exists and <save_dir>/<name> holds exactly the body, in place *)
(* of any file that was there, and nothing else changes; on another status *)
(* nothing changes and nothing is raised.                                  *)

\* the part of url after its last "/"
FinalSegment(url) ==
    CHOOSE n \in {SubSeq(url, k, Len(url)) : k \in 1..(Len(url) + 1)} :
        EndsWith(url, "/" \o n) /\ Slashes(n) = {}

DownloadedTo(pre, post, dir, name, response) ==
    LET target == Join(dir, name)
    IN  IF response.status = 200
        THEN /\ IsDir(post, dir)
             /\ target \in DOMAIN post
             /\ post[target] = File(response.body)
             /\ \A q \in DOMAIN pre \ {target} : q \in DOMAIN post /\ post[q] = pre[q]
             /\ \A q \in DOMAIN post \ DOMAIN pre :
                    q = target \/ (q \in Ancestors(target) /\ post[q] = Dir)
        ELSE post = pre

C5_DownloadFileWritesOn200 ==
    /\ (Len(log) = 1 /\ resp # ConnectionError) =>
            DownloadedTo(fsFetch, fs, save_dir, file_name, resp)
    /\ pc = "extract" =>
            /\ resp.status \in {200, 404}
            /\ Ended("download_file", IF resp.status = 200 THEN "saved" ELSE "failed")
            /\ DownloadedTo(fsFetch, fs, pdf_save_dir, FinalSegment(Last(gets)), resp)
    /\ Ended("download_file", "raise") => resp = ConnectionError

\* an archive was saved over another file of the same name
C5_Witness ==
    /\ pc = "extract"
    /\ resp.status = 200
    /\ LET target == Join(pdf_save_dir, FinalSegment(Last(gets)))
       IN  /\ IsFile(fsFetch, target)
           /\ fsFetch[target] # fs[target]

----------------------------------------------------------------------------
(* C7: get_pmc_ids saves the search response whatever its status, so that  *)
(* the identifiers it returns are those of the response of this call (the  *)
(* text of each Id element, in document order).                            *)

\* the text of every Id element of a body, in document order
IdTexts(body) ==
    IF body.fmt # "xml" THEN <<>>
    ELSE LET at == {k \in 1..Len(body.doc) : body.doc[k].tag = "Id"}
             nth(n) == CHOOSE k \in at : Cardinality({j \in at : j <= k}) = n
         IN  [n \in 1..Cardinality(at) |-> body.doc[nth(n)].text]

SearchFile == Join(save_dir, file_name)

C7_SearchSavedWhateverStatus ==
    (Len(log) = 1 /\ resp # ConnectionError) =>
        /\ IsFile(fs, SearchFile)
        /\ fs[SearchFile].body = resp.body
        /\ log[1].out # "raise"
        /\ pmc_ids = IdTexts(resp.body)

(* C7, amended: get_pmc_ids saves the search response when its status is   *)
(* 200, and then returns the identifiers of that response; on another      *)
(* status it writes nothing and returns the identifiers of the file an     *)
(* earlier run left at that path, or raises when there is no such file.    *)
C7_SearchSavedOn200 ==
    (Len(log) = 1 /\ resp # ConnectionError) =>
        IF resp.status = 200
        THEN /\ IsFile(fs, SearchFile)
             /\ fs[SearchFile].body = resp.body
             /\ log[1].out = "saved"
             /\ pmc_ids = IdTexts(resp.body)
        ELSE /\ fs = fsFetch
             /\ IF IsFile(fsFetch, SearchFile)
                THEN /\ log[1].out = "failed"
                     /\ pmc_ids = IdTexts(fsFetch[SearchFile].body)
                ELSE /\ log[1].out = "raise"
                     /\ pc = "raised"

\* the search answered 404 and the identifiers of an earlier run came back
C7_Witness ==
    /\ Len(log) = 1
    /\ resp.status = 404
    /\ pmc_ids = <<"456">>
    /\ IdTexts(resp.body) = <<>>

----------------------------------------------------------------------------
(* Vocabulary of the properties of unzip_and_clean *)

ArchiveOf(id) == Join(pdf_save_dir, "PMC" \o id \o ".tar.gz")
DirOf(id) == Join(pdf_save_dir, "PMC" \o id)

\* the names of the .pdf entries the extracted directory had
PdfsOf(id) == {n \in Listdir(fsExtr, DirOf(id)) : EndsWith(n, ".pdf")}

\* those that had a namesake in save_dir
Conflicts(id) == {n \in PdfsOf(id) : Exists(fsExtr, Join(pdf_save_dir, n))}

\* q is a PDF of the extracted directory, now in save_dir
RelocatedPdf(q, id) ==
    \E n \in PdfsOf(id) \ Conflicts(id) :
        /\ q = Join(pdf_save_dir, n)
        /\ IsFile(fs, q)
        /\ fs[q] = fsExtr[Join(DirOf(id), n)]

\* the members of the archive that was opened that are not below PMC<id>/
OutsideMembers(id) ==
    {m \in fsUnzip[ArchiveOf(id)].body.members : ~StartsWith(m, "PMC" \o id \o "/")}

\* q was extracted from a member that is not below PMC<id>/
Outside(q, id) ==
    \E m \in OutsideMembers(id) :
        \/ q = Join(pdf_save_dir, m)
        \/ q \in Ancestors(Join(pdf_save_dir, m))

\* the entries of save_dir itself that the call added
Added == {q \in DOMAIN fs \ DOMAIN fsUnzip : Dirname(q) = pdf_save_dir}

Gone(id) == Under(fs, DirOf(id)) = {} /\ ~Exists(fs, ArchiveOf(id))

----------------------------------------------------------------------------
(* C1: however unzip_and_clean ends, the only entries of save_dir that     *)
(* were not there before the archive was downloaded are relocated PDFs:    *)
(* no archive, no extracted directory, no other extracted member.          *)
C1_NoResidueWhateverOutcome ==
    (log # <<>> /\ Last(log).op = "unzip_and_clean") =>
        \A q \in DOMAIN fs \ DOMAIN fsFetch :
            \/ q \in Ancestors(pdf_save_dir) \cup {pdf_save_dir}
            \/ RelocatedPdf(q, Last(log).id)

(* C1, amended: when unzip_and_clean returns, the extracted directory and  *)
(* the archive PMC<id>.tar.gz are gone, and the only entries of save_dir   *)
(* that were not there when it was called are the relocated PDFs and what  *)
(* the archive stores outside PMC<id>/; when it raises, it deletes nothing.*)
C1_CleanOnReturn ==
    /\ Ended("unzip_and_clean", "returned") =>
        /\ Gone(Last(log).id)
        /\ \A q \in DOMAIN fs \ DOMAIN fsUnzip :
            RelocatedPdf(q, Last(log).id) \/ Outside(q, Last(log).id)
    /\ Ended("unzip_and_clean", "raise") =>
        \A q \in DOMAIN fsUnzip : q \in DOMAIN fs

\* a call that returned, having relocated a PDF and left behind a member
\* stored outside PMC<id>/
C1_Witness ==
    /\ Ended("unzip_and_clean", "returned")
    /\ \E q \in DOMAIN fs \ DOMAIN fsUnzip : RelocatedPdf(q, Last(log).id)
    /\ \E q \in DOMAIN fs \ DOMAIN fsUnzip : Outside(q, Last(log).id)

----------------------------------------------------------------------------
(* C4: after unzip_and_clean returns, the entries added to save_dir are    *)
(* exactly the .pdf entries of the extracted directory that had no         *)
(* namesake in save_dir (none, with the report that none was found, when   *)
(* the directory has no .pdf), and the extracted directory and the archive *)
(* are gone.                                                               *)

ExpectedPdfs(id) == {Join(pdf_save_dir, n) : n \in PdfsOf(id) \ Conflicts(id)}

\* "No PDF found in the archive." was printed by the call that just ended
ReportedNone ==
    /\ Len(log) > 1
    /\ log[Len(log) - 1] = Entry("print", Last(log).id, "No PDF found in the archive.")

C4_AddedExactlyThePdfs ==
    Ended("unzip_and_clean", "returned") =>
        /\ Added = ExpectedPdfs(Last(log).id)
        /\ \A q \in Added : RelocatedPdf(q, Last(log).id)
        /\ ReportedNone <=> PdfsOf(Last(log).id) = {}
        /\ Gone(Last(log).id)

\* the part of m before its first "/"
FirstSegment(m) ==
    IF Slashes(m) = {} THEN m ELSE SubSeq(m, 1, Min(Slashes(m)) - 1)

\* the entries of save_dir that members outside PMC<id>/ created
OutsideEntries(id) ==
    {Join(pdf_save_dir, FirstSegment(m)) : m \in OutsideMembers(id)} \ DOMAIN fsUnzip

(* C4, amended: after unzip_and_clean returns, the entries added to        *)
(* save_dir are exactly the .pdf entries of the extracted directory that   *)
(* had no namesake in save_dir, and what the archive stores outside        *)
(* PMC<id>/; the extracted directory and the archive are gone.             *)
C4_AddedPdfsAndOutsideMembers ==
    Ended("unzip_and_clean", "returned") =>
        /\ Added = ExpectedPdfs(Last(log).id) \cup OutsideEntries(Last(log).id)
        /\ \A q \in ExpectedPdfs(Last(log).id) : RelocatedPdf(q, Last(log).id)
        /\ ReportedNone <=> PdfsOf(Last(log).id) = {}
        /\ Gone(Last(log).id)

\* a call that returned, having added a PDF and a member stored outside
\* PMC<id>/, while a non-PDF of the extracted directory was discarded
C4_Witness ==
    /\ Ended("unzip_and_clean", "returned")
    /\ ExpectedPdfs(Last(log).id) # {}
    /\ OutsideEntries(Last(log).id) # {}
    /\ Added = ExpectedPdfs(Last(log).id) \cup OutsideEntries(Last(log).id)

----------------------------------------------------------------------------
(* C9: when a PDF of the extracted directory has a namesake in save_dir,   *)
(* the namesake is left as it is and the PDF is not moved; the other PDFs  *)
(* are still moved and the clean-up still runs, so that the PDF that was   *)
(* not moved is nowhere once the call has returned.                        *)
C9_ConflictKeepsExisting ==
    /\ pc = "clean" =>
        /\ \A n \in Conflicts(pmc_ids[i]) :
            /\ fs[Join(pdf_save_dir, n)] = fsExtr[Join(pdf_save_dir, n)]
            /\ Exists(fs, Join(DirOf(pmc_ids[i]), n))
            /\ fs[Join(DirOf(pmc_ids[i]), n)] = fsExtr[Join(DirOf(pmc_ids[i]), n)]
        /\ \A n \in PdfsOf(pmc_ids[i]) \ Conflicts(pmc_ids[i]) :
            /\ RelocatedPdf(Join(pdf_save_dir, n), pmc_ids[i])
            /\ ~Exists(fs, Join(DirOf(pmc_ids[i]), n))
    /\ Ended("unzip_and_clean", "returned") =>
        /\ \A n \in Conflicts(Last(log).id) :
            /\ fs[Join(pdf_save_dir, n)] = fsExtr[Join(pdf_save_dir, n)]
            /\ ~Exists(fs, Join(DirOf(Last(log).id), n))
        /\ \A n \in PdfsOf(Last(log).id) \ Conflicts(Last(log).id) :
            RelocatedPdf(Join(pdf_save_dir, n), Last(log).id)
        /\ Gone(Last(log).id)
    /\ Ended("unzip_and_clean", "raise") =>
        fs = fsUnzip \/ ~IsDir(fs, DirOf(Last(log).id))

\* a call that returned after one PDF met a namesake and another was moved
C9_Witness ==
    /\ Ended("unzip_and_clean", "returned")
    /\ Conflicts(Last(log).id) # {}
    /\ PdfsOf(Last(log).id) \ Conflicts(Last(log).id) # {}

====
